---- MODULE Spec2Model ----
(***************************************************************************)
(* Model of the shortcode / entity-mention subsystem of gm-wiki:           *)
(*   app/shortcode.py        scanner, resolver, link renderer, queries     *)
(*   app/routes/*.py         the editors that call clear + process         *)
(*   app/models.py           EntityMention and the mentionable entities    *)
(*                                                                         *)
(* Text is a sequence of tokens: plain words, "#type[name]" marker-like    *)
(* substrings, and rendered links.  Names are sequences of characters so   *)
(* that str.strip(), lower() and SQL LIKE are computed, not assumed.       *)
(***************************************************************************)
EXTENDS Integers, Sequences, FiniteSets, Bags, TLC

VARIABLES active, rows, ments, last, editor, saves

vars == <<active, rows, ments, last, editor, saves>>

\* ------------------------------------------------------------------------
\* Bounds of the model
\* ------------------------------------------------------------------------

\* the runs hold at most this many committed create, edit and delete requests
MaxSaves == 3

Campaigns == {1, 2}

\* session.get('active_campaign_id') is None
NoCampaign == 0

\* ------------------------------------------------------------------------
\* Characters and names
\* ------------------------------------------------------------------------

Upper == {"A", "B"}

LowerCh(c) ==
  CASE c = "A" -> "a"
    [] c = "B" -> "b"
    [] OTHER   -> c

\* str.lower() / SQL lower()
LowerStr(s) == [i \in DOMAIN s |-> LowerCh(s[i])]

IsSpace(c) == c = " "

RECURSIVE LStrip(_)
LStrip(s) ==
  IF s = <<>> THEN <<>>
  ELSE IF IsSpace(Head(s)) THEN LStrip(Tail(s)) ELSE s

RECURSIVE RStrip(_)
RStrip(s) ==
  IF s = <<>> THEN <<>>
  ELSE IF IsSpace(s[Len(s)]) THEN RStrip(SubSeq(s, 1, Len(s) - 1)) ELSE s

\* str.strip()
Strip(s) == RStrip(LStrip(s))

\* SQL LIKE: '%' matches any run of characters, '_' exactly one character
RECURSIVE Like(_, _)
Like(s, p) ==
  IF p = <<>> THEN s = <<>>
  ELSE IF Head(p) = "%"
       THEN Like(s, Tail(p)) \/ (s # <<>> /\ Like(Tail(s), p))
  ELSE IF s = <<>> THEN FALSE
  ELSE IF Head(p) = "_" THEN Like(Tail(s), Tail(p))
  ELSE Head(s) = Head(p) /\ Like(Tail(s), Tail(p))

\* column.ilike(pattern): lower(column) LIKE lower(pattern)
ILike(s, p) == Like(LowerStr(s), LowerStr(p))

\* equality up to letter case (what the lookup is documented to be)
SameName(s, p) == LowerStr(s) = LowerStr(p)

\* ------------------------------------------------------------------------
\* Tokens of a text field
\* ------------------------------------------------------------------------

\* a run of plain text
Word == [k |-> "txt", t |-> "", n |-> <<>>, id |-> 0]

\* the substring "#t[n]"
Marker(t, n) == [k |-> "mark", t |-> t, n |-> n, id |-> 0]

\* a link whose data-preview-id is not the entity's id
LinkNoId(t, id, label) == [k |-> "link", t |-> t, n |-> label, id |-> 0]

\* <a href=url_for(route, id) data-preview-type=t data-preview-id=id>label</a>
Link(t, id, label) == [k |-> "link", t |-> t, n |-> label, id |-> id]

\* keys of TYPE_CONFIG, the alternation of SHORTCODE_RE
TypeKeys == {"npc", "loc", "item", "quest", "comp", "pc", "site"}

\* a pattern that takes any word before the bracket for a type code
ShortcodeMatchAny(tok) == tok.k = "mark" /\ Len(tok.n) >= 1

\* SHORTCODE_RE matches "#t[n]" when t is a known key and n is one or more
\* characters other than ']'
ShortcodeMatch(tok) ==
  tok.k = "mark" /\ tok.t \in TypeKeys /\ Len(tok.n) >= 1

\* tables that hold source entities: the seven mentionable kinds plus the
\* two editors that are sources only
Kinds == TypeKeys \cup {"session", "bestiary"}

\* number of free-text fields each editor processes
FieldCount(kind) ==
  CASE kind = "npc"      -> 4
    [] kind = "loc"      -> 3
    [] kind = "item"     -> 2
    [] kind = "quest"    -> 4
    [] kind = "session"  -> 3
    [] kind = "comp"     -> 1
    [] kind = "site"     -> 1
    [] kind = "bestiary" -> 1
    [] OTHER             -> 0

EmptyFields(kind) == [i \in 1..FieldCount(kind) |-> <<>>]

\* ------------------------------------------------------------------------
\* Rows
\* ------------------------------------------------------------------------

NoEntity == [kind |-> "none", id |-> 0, camp |-> 0, name |-> <<>>, fields |-> <<>>]

MaxOf(S) == IF S = {} THEN 0 ELSE CHOOSE x \in S : \A y \in S : y <= x

\* INTEGER PRIMARY KEY of an SQLite table: one more than the largest id in use
NextId(rs, kind) == MaxOf({r.id : r \in {q \in rs : q.kind = kind}}) + 1

\* a lookup that never finds a row
QueryFirstNone(matches, pick) == NoEntity

\* Query.first() without ORDER BY: the row the engine happens to return first.
\* pick names the row the query plan yields first when it is among the matches.
QueryFirst(matches, pick) ==
  IF matches = {} THEN NoEntity
  ELSE IF \E r \in matches : r.id = pick
       THEN CHOOSE r \in matches : r.id = pick
       ELSE CHOOSE r \in matches : \A q \in matches : r.id <= q.id

\* a flush that commits what it writes
FlushCommits(drows, newrows) == newrows

\* db.session.flush(): the rows get their ids and are visible to later queries of
\* the same transaction; what is committed stays as it was
FlushKeepsDurable(drows, newrows) == drows

\* ------------------------------------------------------------------------
\* shortcode.py
\* ------------------------------------------------------------------------

\* a lookup that creates a stub for every type
LookupOnlyNever(type_key) == FALSE

\* if type_key == 'pc': the result of the query is returned as it is
LookupOnly(type_key) == type_key = "pc"

\* _find_or_create_entity: s = [rows (session view), drows (committed)]
FindOrCreate(s, type_key, name, camp, pick) ==
  LET matches == {r \in s.rows :
                    r.kind = type_key /\ r.camp = camp /\ ILike(r.name, name)}
      found == QueryFirst(matches, pick)
  IN IF LookupOnly(type_key) \/ found # NoEntity
     THEN [entity |-> found, created |-> FALSE, rows |-> s.rows, drows |-> s.drows]
     ELSE LET stub == [kind |-> type_key, id |-> NextId(s.rows, type_key),
                       camp |-> camp, name |-> name,
                       fields |-> EmptyFields(type_key)]
              nrows == s.rows \cup {stub}
          IN [entity |-> stub, created |-> TRUE, rows |-> nrows,
              drows |-> FlushKeepsDurable(s.drows, nrows)]

\* an edge whose target id is taken from the source
MentionOfSource(camp, st, sid, tt, tid) ==
  [camp |-> camp, st |-> st, sid |-> sid, tt |-> tt, tid |-> sid]

\* EntityMention(campaign_id, source_type, source_id, target_type, target_id)
Mention(camp, st, sid, tt, tid) ==
  [camp |-> camp, st |-> st, sid |-> sid, tt |-> tt, tid |-> tid]

\* a replace_match that never finds its target among those already seen
SeenTargetNever(seen, target_key) == FALSE

\* has the (type_key, id) pair been seen in this call
SeenTarget(seen, target_key) == target_key \in seen

\* replace_match once _find_or_create_entity has returned r: the marker stays
\* when no entity came back, else it becomes a link labelled with the stored
\* name and the edge is recorded unless its target was seen
Replaced(acc, tok, r, camp, st, sid) ==
  IF r.entity = NoEntity
  THEN [acc EXCEPT !.out = Append(@, tok)]
  ELSE [out   |-> Append(acc.out, Link(tok.t, r.entity.id, r.entity.name)),
        ments |-> IF SeenTarget(acc.seen, <<tok.t, r.entity.id>>) THEN acc.ments
                  ELSE Append(acc.ments,
                              Mention(camp, st, sid, tok.t, r.entity.id)),
        seen  |-> acc.seen \cup {<<tok.t, r.entity.id>>},
        rows  |-> r.rows,
        drows |-> r.drows]

\* a marker name used as it was typed
MarkerNameRaw(tok) == tok.n

\* name = m.group(2).strip()
MarkerName(tok) == Strip(tok.n)

\* process_shortcodes.replace_match on one regex match
ReplaceMatch(acc, tok, camp, st, sid, pick) ==
  Replaced(acc, tok,
           FindOrCreate([rows |-> acc.rows, drows |-> acc.drows],
                        tok.t, MarkerName(tok), camp, pick),
           camp, st, sid)

\* SHORTCODE_RE.sub(replace_match, text): one left-to-right pass
RECURSIVE Scan(_, _, _, _, _, _)
Scan(acc, text, camp, st, sid, pick) ==
  IF text = <<>> THEN acc
  ELSE Scan(IF ShortcodeMatch(Head(text))
            THEN ReplaceMatch(acc, Head(text), camp, st, sid, pick)
            ELSE [acc EXCEPT !.out = Append(@, Head(text))],
            Tail(text), camp, st, sid, pick)

\* process_shortcodes: returns (processed text out, mentions ments); rows and
\* drows carry the stubs it flushed, seen is its seen_targets
ProcessShortcodes(text, camp, st, sid, s, pick) ==
  IF text = <<>>
  THEN [out |-> text, ments |-> <<>>, seen |-> {}, rows |-> s.rows, drows |-> s.drows]
  ELSE Scan([out |-> <<>>, ments |-> <<>>, seen |-> {},
             rows |-> s.rows, drows |-> s.drows],
            text, camp, st, sid, pick)

\* a clear that filters on the source id alone
ClearBySourceId(ms, st, sid) ==
  [m \in {x \in DOMAIN ms : x.sid # sid} |-> ms[m]]

\* a clear that deletes nothing
ClearNothing(ms, st, sid) == ms

\* The entity_mention table is a bag of edges: its rows differ only in their own
\* primary key, which nothing reads.
\* clear_mentions: DELETE FROM entity_mention WHERE source_type, source_id
ClearMentions(ms, st, sid) ==
  [m \in {x \in DOMAIN ms : ~(x.st = st /\ x.sid = sid)} |-> ms[m]]

\* does the row of kind/id exist (model_cls.query.get)
GetRow(rs, kind, id) ==
  IF \E r \in rs : r.kind = kind /\ r.id = id
  THEN CHOOSE r \in rs : r.kind = kind /\ r.id = id
  ELSE NoEntity

\* one entry of a result list, for the edge m and the row it resolves to
Entry(type, id, row) == [type |-> type, id |-> id, label |-> row.name]

\* forward links that list an edge whether or not its target row exists
ResolveKeepsDangling(rs, ms, st, sid) ==
  LET hit == {x \in DOMAIN ms : x.st = st /\ x.sid = sid /\ x.tt \in TypeKeys}
  IN [e \in {Entry(m.tt, m.tid, GetRow(rs, m.tt, m.tid)) : m \in hit} |->
        BagCardinality([m \in {x \in hit :
                                 Entry(x.tt, x.tid, GetRow(rs, x.tt, x.tid)) = e}
                        |-> ms[m]])]

\* resolve_mentions_for_source: the forward links as a bag of entries (one per
\* stored edge), dangling targets skipped
ResolveMentionsForSource(rs, ms, st, sid) ==
  LET hit == {x \in DOMAIN ms : x.st = st /\ x.sid = sid /\ x.tt \in TypeKeys
                                /\ GetRow(rs, x.tt, x.tid) # NoEntity}
  IN [e \in {Entry(m.tt, m.tid, GetRow(rs, m.tt, m.tid)) : m \in hit} |->
        BagCardinality([m \in {x \in hit :
                                 Entry(x.tt, x.tid, GetRow(rs, x.tt, x.tid)) = e}
                        |-> ms[m]])]

\* resolve_mentions_for_target: the "Referenced by" list; a source whose type is
\* not a key of TYPE_CONFIG is skipped
ResolveMentionsForTarget(rs, ms, tt, tid) ==
  LET hit == {x \in DOMAIN ms : x.tt = tt /\ x.tid = tid /\ x.st \in TypeKeys
                                /\ GetRow(rs, x.st, x.sid) # NoEntity}
  IN [e \in {Entry(m.st, m.sid, GetRow(rs, m.st, m.sid)) : m \in hit} |->
        BagCardinality([m \in {x \in hit :
                                 Entry(x.st, x.sid, GetRow(rs, x.st, x.sid)) = e}
                        |-> ms[m]])]

\* ------------------------------------------------------------------------
\* The editors (routes/*.py)
\* ------------------------------------------------------------------------

\* setattr(entity, field, processed); for m in mentions: db.session.add(m),
\* for the i-th field and the result p of its process call
FieldDone(i, acc, p) ==
  [fields |-> [acc.fields EXCEPT ![i] = p.out],
   added  |-> acc.added \o p.ments,
   calls  |-> Append(acc.calls,
                     [tin |-> acc.fields[i], tout |-> p.out, ments |-> p.ments]),
   rows   |-> p.rows,
   drows  |-> p.drows]

\* for field in _X_TEXT_FIELDS: if val: process, setattr, add mentions
RECURSIVE ProcessFields(_, _, _, _, _, _)
ProcessFields(i, acc, camp, st, sid, pick) ==
  IF i > Len(acc.fields) THEN acc
  ELSE IF acc.fields[i] = <<>> THEN ProcessFields(i + 1, acc, camp, st, sid, pick)
  ELSE ProcessFields(i + 1,
                     FieldDone(i, acc,
                               ProcessShortcodes(acc.fields[i], camp, st, sid,
                                                 [rows |-> acc.rows,
                                                  drows |-> acc.drows], pick)),
                     camp, st, sid, pick)

\* the edges of a list, as a bag
RECURSIVE EdgeBag(_)
EdgeBag(edges) ==
  IF edges = <<>> THEN EmptyBag
  ELSE SetToBag({Head(edges)}) (+) EdgeBag(Tail(edges))

\* a save that stores each distinct edge of its fields once
InsertMentionsOnce(ms, added) ==
  ms (+) SetToBag({added[i] : i \in DOMAIN added})

\* for m in mentions: db.session.add(m), for every processed field
InsertMentions(ms, added) == ms (+) EdgeBag(added)

\* the row of the saved entity carries the processed fields
WithFields(rs, kind, id, fields) ==
  {IF r.kind = kind /\ r.id = id THEN [r EXCEPT !.fields = fields] ELSE r : r \in rs}

\* editors whose rows belong to a campaign and that need an active campaign
CampaignEditors == {"npc", "loc", "item", "quest", "comp", "site", "session"}

\* delete_site is the one delete handler that calls clear_mentions
DeleteClears(kind) == kind = "site"

\* last: the request served last (its kind of operation, the entity it was for,
\* whether it committed, the process calls it made, the edges they returned,
\* and whether they had flushed stub entities)
NoLast ==
  [op |-> "none", kind |-> "none", id |-> 0, ok |-> FALSE, camp |-> NoCampaign,
   calls |-> <<>>, added |-> <<>>, stubs |-> FALSE]

\* a request that raised before its commit: the transaction is rolled back
Failed(stubs) == [NoLast EXCEPT !.op = "failed", !.stubs = stubs]

\* the rows of the session's view that the request's process calls created
StubRows(kind, id, nrows) ==
  {r \in nrows : /\ ~(r.kind = kind /\ r.id = id)
                 /\ \A q \in rows : ~(q.kind = r.kind /\ q.id = r.id)}

\* what a request leaves behind: the session's view when it commits, the
\* committed rows when it is rolled back (the handlers serve a request while
\* the run has saves left)
Outcome(op, kind, id, p, nrows, nments) ==
  /\ \E fail \in BOOLEAN :
       /\ rows' = IF fail THEN p.drows ELSE nrows
       /\ ments' = IF fail THEN ments ELSE nments
       /\ saves' = IF fail THEN saves ELSE saves + 1
       /\ last' = IF fail THEN Failed(StubRows(kind, id, nrows) # {})
                  ELSE [op |-> op, kind |-> kind, id |-> id, ok |-> TRUE,
                        camp |-> active, calls |-> p.calls, added |-> p.added,
                        stubs |-> StubRows(kind, id, nrows) # {}]
  /\ UNCHANGED <<active, editor>>

\* create_npc, create_location, create_item, create_quest, create_entry
\* (compendium), create_site, create_session
CreateEntity(kind, rawname, form, pick) ==
  /\ saves < MaxSaves
  /\ active # NoCampaign
  /\ Strip(rawname) # <<>>
  /\ \E id \in {NextId(rows, kind)} :
       \E flushed \in {rows \cup {[kind |-> kind, id |-> id, camp |-> active,
                                    name |-> Strip(rawname), fields |-> form]}} :
         \E p \in {ProcessFields(1, [fields |-> form, added |-> <<>>,
                                     calls |-> <<>>, rows |-> flushed,
                                     drows |-> FlushKeepsDurable(rows, flushed)],
                                 active, kind, id, pick)} :
           Outcome("create", kind, id, p,
                   WithFields(p.rows, kind, id, p.fields),
                   InsertMentions(ments, p.added))

\* entity.name = name and the submitted fields, written to the loaded row
Renamed(rs, kind, id, rawname, form) ==
  {IF r.kind = kind /\ r.id = id
   THEN [r EXCEPT !.name = Strip(rawname), !.fields = form]
   ELSE r : r \in rs}

\* edit_npc, edit_location, edit_item, edit_quest, edit_entry (compendium),
\* edit_site, edit_session
EditEntity(kind, id, rawname, form, pick) ==
  /\ saves < MaxSaves
  /\ \E r \in rows : r.kind = kind /\ r.id = id /\ r.camp = active
  /\ Strip(rawname) # <<>>
  /\ \E p \in {ProcessFields(1, [fields |-> form, added |-> <<>>, calls |-> <<>>,
                                 rows |-> Renamed(rows, kind, id, rawname, form),
                                 drows |-> rows],
                             active, kind, id, pick)} :
       Outcome("edit", kind, id, p,
               WithFields(p.rows, kind, id, p.fields),
               InsertMentions(ClearMentions(ments, kind, id), p.added))

\* delete_npc, delete_location, delete_item, delete_quest, delete_entry
\* (compendium), delete_site, delete_session
DeleteEntity(kind, id) ==
  /\ saves < MaxSaves
  /\ \E r \in rows : r.kind = kind /\ r.id = id /\ r.camp = active
  /\ Outcome("delete", kind, id,
             [drows |-> rows, calls |-> <<>>, added |-> <<>>],
             {r \in rows : ~(r.kind = kind /\ r.id = id)},
             IF DeleteClears(kind) THEN ClearMentions(ments, kind, id) ELSE ments)

\* bestiary.create_entry / bestiary.edit_entry: entries belong to no campaign;
\* shortcodes are processed only while a campaign is active
BestiaryFields(form, camp, id, rs, drs, pick) ==
  IF camp # NoCampaign /\ form[1] # <<>>
  THEN ProcessFields(1, [fields |-> form, added |-> <<>>, calls |-> <<>>,
                         rows |-> rs, drows |-> drs],
                     camp, "bestiary", id, pick)
  ELSE [fields |-> form, added |-> <<>>, calls |-> <<>>, rows |-> rs, drows |-> drs]

\* bestiary.edit_entry clears only inside "if campaign_id and entry.stat_block"
BestiaryCleared(ms, form, camp, id) ==
  IF camp # NoCampaign /\ form[1] # <<>>
  THEN ClearMentions(ms, "bestiary", id)
  ELSE ms

CreateBestiary(rawname, form, pick) ==
  /\ saves < MaxSaves
  /\ Strip(rawname) # <<>>
  /\ form[1] # <<>>
  /\ \E id \in {NextId(rows, "bestiary")} :
       \E flushed \in {rows \cup {[kind |-> "bestiary", id |-> id,
                                    camp |-> NoCampaign,
                                    name |-> Strip(rawname), fields |-> form]}} :
         \E p \in {BestiaryFields(form, active, id, flushed,
                                  FlushKeepsDurable(rows, flushed), pick)} :
           Outcome("create", "bestiary", id, p,
                   WithFields(p.rows, "bestiary", id, p.fields),
                   InsertMentions(ments, p.added))

EditBestiary(id, rawname, form, pick) ==
  /\ saves < MaxSaves
  /\ \E r \in rows : r.kind = "bestiary" /\ r.id = id
  /\ Strip(rawname) # <<>>
  /\ form[1] # <<>>
  /\ \E p \in {BestiaryFields(form, active, id,
                              Renamed(rows, "bestiary", id, rawname, form),
                              rows, pick)} :
       Outcome("edit", "bestiary", id, p,
               WithFields(p.rows, "bestiary", id, p.fields),
               InsertMentions(BestiaryCleared(ments, form, active, id), p.added))

DeleteBestiary(id) ==
  /\ saves < MaxSaves
  /\ \E r \in rows : r.kind = "bestiary" /\ r.id = id
  /\ Outcome("delete", "bestiary", id,
             [drows |-> rows, calls |-> <<>>, added |-> <<>>],
             {r \in rows : ~(r.kind = "bestiary" /\ r.id = id)},
             ments)

\* main.switch_campaign
SwitchCampaign(c) ==
  /\ active # c
  /\ active' = c
  /\ last' = [NoLast EXCEPT !.op = "switch", !.camp = c]
  /\ UNCHANGED <<rows, ments, editor, saves>>

\* auth.logout: session.clear()
Logout ==
  /\ active # NoCampaign
  /\ active' = NoCampaign
  /\ last' = [NoLast EXCEPT !.op = "logout"]
  /\ UNCHANGED <<rows, ments, editor, saves>>

\* ------------------------------------------------------------------------
\* Inputs
\* ------------------------------------------------------------------------

NameAb == <<"A", "b">>

NameLowerAb == <<"a", "b">>

NamePadAb == <<" ", "A", "b", " ">>

NameWild == <<"a", "%">>

FormNames == {NameAb}

TxtPlain == <<Word>>

TxtNpcTwice == <<Marker("npc", NameAb), Marker("npc", NameLowerAb)>>

TxtPcLoc == <<Marker("pc", NameAb), Marker("loc", NamePadAb), Word, Marker("loc", NameAb)>>

TxtUnknown == <<Marker("foo", NameAb), Word>>

TxtWild == <<Marker("pc", NameWild), Marker("npc", NameWild)>>

\* the texts submitted to the editors
Texts == {TxtPlain, TxtNpcTwice}

\* the first two text fields of a form; the others are left empty
FieldInputs ==
  {<<t, <<>>>> : t \in Texts} \cup {<<TxtNpcTwice, TxtNpcTwice>>}

Form(kind, fi) ==
  [i \in 1..FieldCount(kind) |-> IF i <= 2 THEN fi[i] ELSE <<>>]

Forms(kind) == {Form(kind, fi) : fi \in FieldInputs}

\* the editors the requests are drawn from: a multi-field editor whose kind is
\* a key of TYPE_CONFIG, one whose kind is not, and a single-field one (the
\* only one whose delete handler clears mentions)
EditorInputs == {"npc", "session", "site", "bestiary"}

\* the campaigns the user of the run switches between: both where only the NPC
\* editor is used, the first one elsewhere
CampaignInputs == IF editor = "npc" THEN Campaigns ELSE {1}

\* the rows a query may return first: those of the table, or one flushed by
\* the request itself
Picks == 1..(MaxOf({r.id : r \in rows}) + 1)

\* the rows of the editors the requests are drawn from
Editable == {r \in rows : r.kind \in {"npc", editor}}

\* ------------------------------------------------------------------------
\* Specification
\* ------------------------------------------------------------------------

Init ==
  /\ active = NoCampaign
  /\ rows = {}
  /\ ments = EmptyBag
  /\ last = NoLast
  /\ editor \in EditorInputs
  /\ saves = 0

Next ==
  \/ \E kind \in {"npc", editor} \cap CampaignEditors, n \in FormNames,
        pick \in Picks :
       \E f \in Forms(kind) : CreateEntity(kind, n, f, pick)
  \/ \E r \in Editable, n \in FormNames, pick \in Picks :
       \E f \in Forms(r.kind) :
          r.kind \in CampaignEditors /\ EditEntity(r.kind, r.id, n, f, pick)
  \/ \E r \in Editable :
       r.kind \in CampaignEditors /\ DeleteEntity(r.kind, r.id)
  \/ \E n \in FormNames, f \in Forms("bestiary"), pick \in Picks :
       editor = "bestiary" /\ CreateBestiary(n, f, pick)
  \/ \E r \in Editable, n \in FormNames, f \in Forms("bestiary"), pick \in Picks :
       r.kind = "bestiary" /\ EditBestiary(r.id, n, f, pick)
  \/ \E r \in Editable : r.kind = "bestiary" /\ DeleteBestiary(r.id)
  \/ \E c \in CampaignInputs : SwitchCampaign(c)
  \/ Logout

Spec == Init /\ [][Next]_vars

\* ------------------------------------------------------------------------
\* Specification of single process calls: process_shortcodes applied, inside a
\* save that commits, to each text over each small database
\* ------------------------------------------------------------------------

\* the databases hold at most this many rows before the first call
MaxInitRows == 2

ProcCampaigns == {1, 2}

\* rows the editors can have left behind: NPCs and player characters of two
\* campaigns, under a plain name and under a name holding a LIKE wildcard
CandidateRows ==
  {[kind |-> "npc", id |-> i, camp |-> c, name |-> n, fields |-> EmptyFields("npc")] :
     i \in 1..2, c \in ProcCampaigns, n \in {NameAb, NameWild}}
  \cup
  {[kind |-> "pc", id |-> 1, camp |-> c, name |-> n, fields |-> EmptyFields("pc")] :
     c \in ProcCampaigns, n \in {NameAb, NameWild}}

\* two NPCs of campaign 1 created under one name, after an NPC of another name
DupDb ==
  {[kind |-> "npc", id |-> 1, camp |-> 1, name |-> NameAb, fields |-> EmptyFields("npc")],
   [kind |-> "npc", id |-> 2, camp |-> 1, name |-> NameWild, fields |-> EmptyFields("npc")],
   [kind |-> "npc", id |-> 3, camp |-> 1, name |-> NameWild, fields |-> EmptyFields("npc")]}

InitDbs ==
  {S \in SUBSET CandidateRows :
     /\ Cardinality(S) <= MaxInitRows
     /\ \A r, q \in S : (r.kind = q.kind /\ r.id = q.id) => r = q}
  \cup {DupDb}

\* a marker of a type whose model class may be missing, after one that is not
TxtSite == <<Marker("npc", NameAb), Marker("site", NameAb)>>

\* a marker whose bracketed name is one blank: "[^\]]+" matches it
TxtBlank == <<Marker("npc", <<" ">>)>>

ProcTexts == {TxtPlain, TxtNpcTwice, TxtPcLoc, TxtWild, TxtUnknown, TxtSite, TxtBlank}

\* the type codes whose model class app.models does not define
MissingInputs == {{}, {"site"}}

\* _get_model: getattr(models, model_name) raises AttributeError for a missing
\* class; neither _find_or_create_entity nor replace_match catches it
LookupRaises(text, missing) ==
  \E i \in DOMAIN text : ShortcodeMatch(text[i]) /\ text[i].t \in missing

InitProcess ==
  /\ active \in ProcCampaigns
  /\ rows \in InitDbs
  /\ ments = EmptyBag
  /\ last = NoLast
  /\ editor = "session"
  /\ saves = 0

\* the missing models that the markers of a text ask for
Needed(text, missing) ==
  {t \in missing : \E i \in DOMAIN text : ShortcodeMatch(text[i]) /\ text[i].t = t}

\* a process_shortcodes call that raised: the request ends without a commit and
\* the session is rolled back
Raised(text, missing) ==
  [op |-> "raised", kind |-> "session", id |-> 1, ok |-> FALSE, camp |-> active,
   calls |-> <<[tin |-> text, tout |-> <<>>, ments |-> <<>>]>>,
   added |-> <<>>, stubs |-> FALSE, before |-> rows,
   missing |-> missing]

\* process_shortcodes(text, campaign_id, 'session', 1) in a request that commits
\* (a missing model that no marker of the text asks for plays no part)
ProcessCall(text, pick, missing) ==
  /\ saves < MaxSaves
  /\ missing = Needed(text, missing)
  /\ IF LookupRaises(text, missing)
       THEN /\ rows' = rows
            /\ last' = Raised(text, missing)
       ELSE \E p \in {ProcessShortcodes(text, active, "session", 1,
                                        [rows |-> rows, drows |-> rows], pick)} :
              /\ rows' = p.rows
              /\ last' = [op |-> "process", kind |-> "session", id |-> 1, ok |-> TRUE,
                          camp |-> active,
                          calls |-> <<[tin |-> text, tout |-> p.out, ments |-> p.ments]>>,
                          added |-> p.ments, stubs |-> p.rows # rows, before |-> rows,
                          missing |-> missing]
  /\ saves' = saves + 1
  /\ UNCHANGED <<active, ments, editor>>

NextProcess ==
  \E text \in ProcTexts, pick \in Picks, missing \in MissingInputs :
    ProcessCall(text, pick, missing)

SpecProcess == InitProcess /\ [][NextProcess]_vars

\* ------------------------------------------------------------------------
\* The edge store under single calls of the shortcode functions: SpecEdges
\* ------------------------------------------------------------------------

NameB == <<"b">>

\* two markers that name two targets
TxtTwoTargets == <<Marker("npc", NameAb), Word, Marker("loc", NameAb)>>

EdgeTexts == {TxtPlain, TxtTwoTargets}

\* the entities whose text the calls process
EdgeSources == {<<"npc", 1>>, <<"npc", 2>>, <<"loc", 1>>}

\* the rows of campaign 1 behind the sources and targets
EdgeRows ==
  {[kind |-> "npc", id |-> 1, camp |-> 1, name |-> NameAb, fields |-> EmptyFields("npc")],
   [kind |-> "npc", id |-> 2, camp |-> 1, name |-> NameB, fields |-> EmptyFields("npc")],
   [kind |-> "loc", id |-> 1, camp |-> 1, name |-> NameAb, fields |-> EmptyFields("loc")]}

\* the table with every row, or with NPC 1 deleted
InitEdgeDbs == {EdgeRows, {r \in EdgeRows : ~(r.kind = "npc" /\ r.id = 1)}}

\* edges that earlier saves of the sources can have stored
CandidateEdges ==
  {Mention(1, src[1], src[2], tgt[1], tgt[2]) :
     src \in EdgeSources, tgt \in {<<"npc", 1>>, <<"loc", 1>>}}

InitEdgeBags ==
  {SetToBag(S) : S \in {T \in SUBSET CandidateEdges : Cardinality(T) <= 2}}

\* what a step leaves in last: the call, its source, what process returned, and
\* the tables as they were before it; hist lists the calls made so far, each
\* with whether the store held an edge of its source when it was made
EdgeStep(op, st, sid, text, ret) ==
  [op |-> op, kind |-> st, id |-> sid, tin |-> text, ret |-> ret,
   before |-> rows, mbefore |-> ments,
   hist |-> Append(last.hist,
                   [op |-> op, kind |-> st, id |-> sid, tin |-> text,
                    had |-> \E m \in DOMAIN ments : m.st = st /\ m.sid = sid])]

InitEdges ==
  /\ active = 1
  /\ rows \in InitEdgeDbs
  /\ ments \in InitEdgeBags
  /\ last = [op |-> "none", kind |-> "none", id |-> 0, tin |-> <<>>, ret |-> <<>>,
             before |-> rows, mbefore |-> ments, hist |-> <<>>]
  /\ editor = "npc"
  /\ saves = 0

\* a process call that stores its returned edges itself
StoredWithReturned(ms, ret) == ms (+) EdgeBag(ret)

\* process_shortcodes builds EntityMention objects and appends them to the list
\* it returns; it neither adds them to the session nor deletes a stored one
StoredAfterProcess(ms, ret) == ms

\* process_shortcodes(text, campaign_id, st, sid), committed
\* (at most one row matches a name here, so the order of the query is immaterial)
EdgeProcess(st, sid, text) ==
  /\ saves < MaxSaves
  /\ \E p \in {ProcessShortcodes(text, active, st, sid,
                                   [rows |-> rows, drows |-> rows], 1)} :
       /\ rows' = p.rows
       /\ ments' = StoredAfterProcess(ments, p.ments)
       /\ last' = EdgeStep("process", st, sid, text, p.ments)
  /\ saves' = saves + 1
  /\ UNCHANGED <<active, editor>>

\* the caller's "for m in mentions: db.session.add(m)" after a process call
EdgePersist ==
  /\ saves < MaxSaves
  /\ last.op = "process"
  /\ ments' = InsertMentions(ments, last.ret)
  /\ last' = EdgeStep("persist", last.kind, last.id, last.tin, last.ret)
  /\ saves' = saves + 1
  /\ UNCHANGED <<active, rows, editor>>

\* clear_mentions(st, sid), committed
EdgeClear(st, sid) ==
  /\ saves < MaxSaves
  /\ ments' = ClearMentions(ments, st, sid)
  /\ last' = EdgeStep("clear", st, sid, <<>>, <<>>)
  /\ saves' = saves + 1
  /\ UNCHANGED <<active, rows, editor>>

\* db.session.delete(entity) of a delete handler that does not clear mentions
EdgeDelete(kind, id) ==
  /\ saves < MaxSaves
  /\ \E r \in rows : r.kind = kind /\ r.id = id
  /\ ~DeleteClears(kind)
  /\ rows' = {r \in rows : ~(r.kind = kind /\ r.id = id)}
  /\ last' = EdgeStep("delete", kind, id, <<>>, <<>>)
  /\ saves' = saves + 1
  /\ UNCHANGED <<active, ments, editor>>

\* delete_campaign: the campaign's sessions, player characters, compendium
\* entries, items, quests, NPCs and locations are deleted one by one; no
\* statement touches entity_mention
EdgeDeleteCampaign(c) ==
  /\ saves < MaxSaves
  /\ \E r \in rows : r.camp = c
  /\ rows' = {r \in rows : r.camp # c}
  /\ last' = EdgeStep("delete_campaign", "campaign", c, <<>>, <<>>)
  /\ saves' = saves + 1
  /\ UNCHANGED <<active, ments, editor>>

NextEdges ==
  \/ \E src \in EdgeSources, text \in EdgeTexts : EdgeProcess(src[1], src[2], text)
  \/ EdgePersist
  \/ \E src \in EdgeSources : EdgeClear(src[1], src[2])
  \/ \E r \in rows : EdgeDelete(r.kind, r.id)
  \/ \E c \in {active} : EdgeDeleteCampaign(c)

SpecEdges == InitEdges /\ [][NextEdges]_vars

\* ------------------------------------------------------------------------
\* Quick-create and the shortcode it returns: SpecQuick
\* ------------------------------------------------------------------------

\* a name with a closing bracket in it
NameBr == <<"A", "]", "b">>

QuickNames == {NameAb, NameLowerAb, NamePadAb, NameBr}

\* the entity types of SHORTCODE_PREFIXES the run creates
QuickTypes == {"npc", "location"}

\* SHORTCODE_PREFIXES
ShortcodePrefix(entity_type) ==
  CASE entity_type = "npc"      -> "npc"
    [] entity_type = "location" -> "loc"
    [] entity_type = "quest"    -> "quest"
    [] entity_type = "item"     -> "item"

\* the characters of a name before its first ']'
RECURSIVE UpToBracket(_)
UpToBracket(name) ==
  IF name = <<>> \/ Head(name) = "]" THEN <<>>
  ELSE <<Head(name)>> \o UpToBracket(Tail(name))

\* f'#{prefix}[{name}]' as SHORTCODE_RE reads it: the name of the match ends at
\* the first ']', the rest is plain text; an empty name is no match
ShortcodeString(prefix, name) ==
  IF UpToBracket(name) = name THEN <<Marker(prefix, name)>>
  ELSE IF UpToBracket(name) = <<>> THEN <<Word>>
  ELSE <<Marker(prefix, UpToBracket(name)), Word>>

\* quick_create's duplicate check: name_field == name, scoped to the campaign
QuickExisting(rs, kind, camp, name, pick) ==
  QueryFirst({r \in rs : r.kind = kind /\ r.camp = camp /\ r.name = name}, pick)

\* the tables quick_create can find: empty, or NPCs created under names that
\* differ in letter case
InitQuickDbs ==
  {{},
   {[kind |-> "npc", id |-> 1, camp |-> 1, name |-> NameAb, fields |-> EmptyFields("npc")]},
   {[kind |-> "npc", id |-> 1, camp |-> 2, name |-> NameLowerAb, fields |-> EmptyFields("npc")],
    [kind |-> "npc", id |-> 2, camp |-> 1, name |-> NameLowerAb, fields |-> EmptyFields("npc")]}}

InitQuick ==
  /\ active = 1
  /\ rows \in InitQuickDbs
  /\ ments = EmptyBag
  /\ last = [op |-> "none", kind |-> "none", id |-> 0, shortcode |-> <<>>,
             created |-> FALSE, tout |-> <<>>, before |-> rows]
  /\ editor = "npc"
  /\ saves = 0

\* quick_create(entity_type) with the JSON body {name: rawname}
QuickCreate(entity_type, rawname, pick) ==
  /\ saves < MaxSaves
  /\ active # NoCampaign
  /\ Strip(rawname) # <<>>
  /\ \E existing \in {QuickExisting(rows, ShortcodePrefix(entity_type), active,
                                      Strip(rawname), pick)} :
       \E id \in {IF existing # NoEntity THEN existing.id
                  ELSE NextId(rows, ShortcodePrefix(entity_type))} :
         /\ rows' = IF existing # NoEntity THEN rows
                    ELSE rows \cup {[kind |-> ShortcodePrefix(entity_type), id |-> id,
                                     camp |-> active, name |-> Strip(rawname),
                                     fields |-> EmptyFields(ShortcodePrefix(entity_type))]}
         /\ last' = [op |-> "quick", kind |-> ShortcodePrefix(entity_type), id |-> id,
                     shortcode |-> ShortcodeString(ShortcodePrefix(entity_type),
                                                   IF existing # NoEntity THEN existing.name
                                                   ELSE Strip(rawname)),
                     created |-> existing = NoEntity, tout |-> <<>>, before |-> rows]
  /\ saves' = saves + 1
  /\ UNCHANGED <<active, ments, editor>>

\* process_shortcodes on the shortcode that quick_create has just returned, in
\* a save of session 1 of the same campaign
ProcessQuick(pick) ==
  /\ saves < MaxSaves
  /\ last.op = "quick"
  /\ \E p \in {ProcessShortcodes(last.shortcode, active, "session", 1,
                                   [rows |-> rows, drows |-> rows], pick)} :
       /\ rows' = p.rows
       /\ last' = [last EXCEPT !.op = "processed", !.tout = p.out, !.before = rows]
  /\ saves' = saves + 1
  /\ UNCHANGED <<active, ments, editor>>

NextQuick ==
  \/ \E entity_type \in QuickTypes, rawname \in QuickNames, pick \in Picks :
       QuickCreate(entity_type, rawname, pick)
  \/ \E pick \in Picks : ProcessQuick(pick)

SpecQuick == InitQuick /\ [][NextQuick]_vars

\* ------------------------------------------------------------------------
\* The search and preview endpoints behind the links: SpecPreview
\* ------------------------------------------------------------------------

\* entity_search.search: the entities of the type in the active campaign whose
\* name holds q (the list is ordered by name and cut at ten entries, more than
\* the tables here hold; it is kept as a set)
Search(rs, camp, type_key, q) ==
  IF type_key \notin TypeKeys \/ camp = NoCampaign THEN {}
  ELSE {[id |-> r.id, name |-> r.name, type |-> type_key] :
          r \in {x \in rs : /\ x.kind = type_key
                            /\ x.camp = camp
                            /\ (q = <<>> \/ ILike(x.name, <<"%">> \o q \o <<"%">>))}}

NotFound == [error |-> TRUE, name |-> <<>>]

\* entity_search.entity_preview: model_cls.query.get(entity_id); the subtitle and
\* the status of the response are read from the same row as the name
EntityPreview(rs, type_key, id) ==
  IF type_key \notin TypeKeys \/ GetRow(rs, type_key, id) = NoEntity THEN NotFound
  ELSE [error |-> FALSE, name |-> GetRow(rs, type_key, id).name]

\* the request parameters
PreviewTypes == {"npc", "pc", "foo"}

SearchTerms == {<<>>, <<"a">>, <<"%">>}

InitPreview ==
  /\ active \in {NoCampaign} \cup ProcCampaigns
  /\ rows \in InitDbs
  /\ ments = EmptyBag
  /\ last = [op |-> "none", type |-> "none", id |-> 0, q |-> <<>>,
             found |-> {}, preview |-> NotFound]
  /\ editor = "session"
  /\ saves = 0

\* GET /api/entity-search?type=..&q=..
SearchCall(type_key, q) ==
  /\ last' = [op |-> "search", type |-> type_key, id |-> 0, q |-> q,
              found |-> Search(rows, active, type_key, Strip(q)), preview |-> NotFound]
  /\ UNCHANGED <<active, rows, ments, editor, saves>>

\* GET /api/entity-preview/<type>/<id>
PreviewCall(type_key, id) ==
  /\ last' = [op |-> "preview", type |-> type_key, id |-> id, q |-> <<>>,
              found |-> {}, preview |-> EntityPreview(rows, type_key, id)]
  /\ UNCHANGED <<active, rows, ments, editor, saves>>

NextPreview ==
  \/ \E type_key \in PreviewTypes, q \in SearchTerms : SearchCall(type_key, q)
  \/ \E type_key \in PreviewTypes, r \in rows : PreviewCall(type_key, r.id)

SpecPreview == InitPreview /\ [][NextPreview]_vars

\* ------------------------------------------------------------------------
\* Saving an entity again with its stored text: SpecResave
\* ------------------------------------------------------------------------

\* the editors of the run: a multi-field one and the compendium's single field
ResaveEditors == {"npc", "comp"}

InitResave ==
  /\ active = 1
  /\ rows = {}
  /\ ments = EmptyBag
  /\ last = NoLast
  /\ editor \in ResaveEditors
  /\ saves = 0

\* the edit handler of an entity, posted with the name and the text fields that
\* its edit form shows: those stored for the entity
Resave(kind, id, pick) ==
  \E r \in rows :
    /\ r.kind = kind /\ r.id = id
    /\ EditEntity(kind, id, r.name, r.fields, pick)

NextResave ==
  \/ \E n \in FormNames, pick \in Picks :
       \E f \in Forms(editor) : CreateEntity(editor, n, f, pick)
  \/ \E r \in Editable, pick \in Picks : Resave(r.kind, r.id, pick)

SpecResave == InitResave /\ [][NextResave]_vars

\* ------------------------------------------------------------------------
\* Two edit requests served at the same time: SpecConc
\* ------------------------------------------------------------------------
\* The database is SQLite (config.py). A request reads the entity it edits
\* outside any transaction; its first INSERT, UPDATE or DELETE opens the write
\* transaction, which SQLite grants to one connection at a time and which lasts
\* until the commit. Every process_shortcodes call of a handler comes after such
\* a statement (the flush of a create handler, the DELETE of clear_mentions), so
\* the lookups, the stubs, the edges and the UPDATE of one request are one
\* atomic step with respect to the other request.

Requests == {1, 2}

\* the entities the two requests edit; no NPC of the campaign is named Ab when
\* a request starts (had records the NPCs of that name a request found)
ConcSources == {<<"npc", 1>>, <<"loc", 1>>}

\* the committed rows the requests find: their text fields hold no marker
ConcRows ==
  {[kind |-> "npc", id |-> 1, camp |-> 1, name |-> NameB,
    fields |-> Form("npc", <<TxtPlain, <<>>>>)],
   [kind |-> "loc", id |-> 1, camp |-> 1, name |-> NameAb,
    fields |-> Form("loc", <<TxtPlain, <<>>>>)]}

Idle ==
  [pc |-> "idle", kind |-> "none", id |-> 0, form |-> <<>>, seen |-> <<>>,
   had |-> {}, added |-> <<>>]

InitConc ==
  /\ active = 1
  /\ rows = ConcRows
  /\ ments = EmptyBag
  /\ last = [op |-> "none", reqs |-> [q \in Requests |-> Idle], order |-> <<>>]
  /\ editor = "npc"
  /\ saves = 0

\* edit_x up to the assignments from request.form: the entity is loaded, the
\* posted fields are assigned to it in memory
ConcLoad(q, kind, id, form) ==
  /\ last.reqs[q].pc = "idle"
  /\ \E r \in rows : r.kind = kind /\ r.id = id /\ r.camp = active
  /\ last' = [last EXCEPT !.op = "load",
                          !.reqs[q] = [pc |-> "loaded", kind |-> kind, id |-> id,
                                       form |-> form,
                                       seen |-> GetRow(rows, kind, id).fields,
                                       had |-> {r.id : r \in
                                                  {x \in rows : x.kind = "npc"
                                                               /\ x.name = NameAb}},
                                       added |-> <<>>]]
  /\ UNCHANGED <<active, rows, ments, editor, saves>>

\* the UPDATE of the commit: a column is written when the value assigned to the
\* loaded entity differs from the value it was loaded with (the unit of work
\* skips an attribute with no net change); any other column keeps what the
\* database holds
Flushed(stored, seen, posted, processed) ==
  [i \in DOMAIN stored |->
     IF posted[i] = seen[i] /\ processed[i] = posted[i] THEN stored[i]
     ELSE processed[i]]

\* edit_x from clear_mentions to db.session.commit()
ConcWrite(q, pick) ==
  /\ last.reqs[q].pc = "loaded"
  /\ \E req \in {last.reqs[q]} :
       \E p \in {ProcessFields(1, [fields |-> req.form, added |-> <<>>, calls |-> <<>>,
                                   rows |-> rows, drows |-> rows],
                               active, req.kind, req.id, pick)} :
         /\ rows' = WithFields(p.rows, req.kind, req.id,
                               Flushed(GetRow(rows, req.kind, req.id).fields,
                                       req.seen, req.form, p.fields))
         /\ ments' = InsertMentions(ClearMentions(ments, req.kind, req.id), p.added)
         /\ last' = [last EXCEPT !.op = "write",
                                 !.reqs[q] = [req EXCEPT !.pc = "done", !.added = p.added],
                                 !.order = Append(@, q)]
  /\ saves' = saves + 1
  /\ UNCHANGED <<active, editor>>

NextConc ==
  \/ \E q \in Requests, src \in ConcSources :
       \E form \in Forms(src[1]) : ConcLoad(q, src[1], src[2], form)
  \/ \E q \in Requests, pick \in Picks : ConcWrite(q, pick)

SpecConc == InitConc /\ [][NextConc]_vars

\* ------------------------------------------------------------------------
\* Properties
\* ------------------------------------------------------------------------

\* some row of the kind in the campaign carries the name, compared without case
NameTaken(rs, kind, camp, name) ==
  \E r \in rs : r.kind = kind /\ r.camp = camp /\ SameName(r.name, name)

\* the rows a process call added to the table
NewRows == rows \ last.before

\* the positions of the edges of a list that point at the target
EdgesAt(edges, tt, tid) == {j \in DOMAIN edges : edges[j].tt = tt /\ edges[j].tid = tid}

\* C1: a process call on a text holding #npc[X], made when the campaign has no
\* NPC named X (compared without case), adds exactly one NPC named X to the
\* campaign and turns the marker into a link to that NPC.
C1_StubCreated ==
  last.op = "process" =>
    \A c \in DOMAIN last.calls : \A i \in DOMAIN last.calls[c].tin :
      LET tok == last.calls[c].tin[i]
          X == Strip(tok.n)
      IN (ShortcodeMatch(tok) /\ tok.t = "npc"
          /\ ~NameTaken(last.before, "npc", last.camp, X))
         => \E e \in NewRows :
              /\ e.kind = "npc" /\ e.camp = last.camp /\ SameName(e.name, X)
              /\ \A q \in NewRows :
                   (q.kind = "npc" /\ SameName(q.name, X)) => q = e
              /\ last.calls[c].tout[i] = Link("npc", e.id, e.name)

\* C2: one process call returns at most one edge per target: when the same
\* entity is mentioned several times in the text, every occurrence is turned
\* into a link and exactly one edge to the entity is returned.
C2_OneEdgePerTargetInCall ==
  last.op = "process" =>
    \A c \in DOMAIN last.calls :
      LET call == last.calls[c]
      IN /\ \A i, j \in DOMAIN call.ments :
              (call.ments[i].tt = call.ments[j].tt
               /\ call.ments[i].tid = call.ments[j].tid) => i = j
         /\ \A i \in DOMAIN call.tout :
              (ShortcodeMatch(call.tin[i]) /\ call.tout[i].k = "link")
              => /\ Cardinality(EdgesAt(call.ments, call.tout[i].t, call.tout[i].id)) = 1
                 /\ \A j \in DOMAIN call.tin :
                      call.tin[j] = call.tin[i] => call.tout[j] = call.tout[i]

\* a call whose text named one entity at two places: both are links, one edge
C2_Witness ==
  /\ last.op = "process"
  /\ \E i, j \in DOMAIN last.calls[1].tout :
       /\ i # j
       /\ last.calls[1].tout[i].k = "link"
       /\ last.calls[1].tout[j].k = "link"
       /\ last.calls[1].tout[i].t = last.calls[1].tout[j].t
       /\ last.calls[1].tout[i].id = last.calls[1].tout[j].id
       /\ Cardinality(EdgesAt(last.calls[1].ments, last.calls[1].tout[i].t,
                              last.calls[1].tout[i].id)) = 1

\* the stored edges of one source, as a bag
SourceEdges(ms, st, sid) ==
  [m \in {x \in DOMAIN ms : x.st = st /\ x.sid = sid} |-> ms[m]]

\* an edge's target is a row of the target kind in the edge's campaign
TargetLive(rs, m) ==
  \E r \in rs : r.kind = m.tt /\ r.id = m.tid /\ r.camp = m.camp

\* C3: after a committed edit of an entity, the stored edges whose source is the
\* entity are exactly the edges that processing the submitted text fields
\* returned; when the submitted text holds no marker, the entity's forward
\* links are empty.
C3_EditReplacesEdges ==
  (last.op = "edit" /\ last.ok) =>
    /\ SourceEdges(ments, last.kind, last.id) = EdgeBag(last.added)
    /\ (last.added = <<>>
        => ResolveMentionsForSource(rows, ments, last.kind, last.id) = EmptyBag)

\* C4: in every committed state, every stored edge points at an existing entity
\* of its target kind in the edge's campaign.
C4_TargetsLive == \A m \in DOMAIN ments : TargetLive(rows, m)

\* C4 (amended): every edge that a committed create or edit stored points, at
\* that commit, at an existing entity of its target kind in the edge's
\* campaign.
C4_TargetsLiveAtCommit ==
  (last.ok /\ last.op \in {"create", "edit"}) =>
    \A i \in DOMAIN last.added :
      /\ last.added[i] \in DOMAIN ments
      /\ TargetLive(rows, last.added[i])

\* a save has just stored an edge to an entity of its campaign while another
\* campaign holds an entity of the same kind and name
C4_Witness ==
  /\ last.ok /\ last.op \in {"create", "edit"}
  /\ \E i \in DOMAIN last.added :
       /\ TargetLive(rows, last.added[i])
       /\ \E r \in rows :
            /\ r.kind = last.added[i].tt /\ r.camp # last.added[i].camp
            /\ SameName(r.name, GetRow(rows, r.kind, last.added[i].tid).name)

\* C5: after a committed delete of an entity, no stored edge has the entity as
\* its source.
C5_DeleteRemovesEdges ==
  (last.op = "delete" /\ last.ok) =>
    SourceEdges(ments, last.kind, last.id) = EmptyBag

\* C6: for every stored edge whose source entity exists, the "Referenced by"
\* list of the edge's target holds an entry for the source.
C6_BackReferenceListed ==
  \A m \in DOMAIN ments :
    (GetRow(rows, m.st, m.sid) # NoEntity /\ GetRow(rows, m.tt, m.tid) # NoEntity)
    => \E e \in DOMAIN ResolveMentionsForTarget(rows, ments, m.tt, m.tid) :
         e.type = m.st /\ e.id = m.sid

\* C7: the edges that one committed save stored hold at most one edge per
\* (source, target kind, target id), also when the marker is in two fields.
C7_OneEdgePerSave ==
  (last.ok /\ last.op \in {"create", "edit"}) =>
    \A i \in DOMAIN last.added :
      Cardinality(EdgesAt(last.added, last.added[i].tt, last.added[i].tid)) = 1

\* the process calls of the save that returned an edge to the target
CallsNaming(tt, tid) ==
  {c \in DOMAIN last.calls : EdgesAt(last.calls[c].ments, tt, tid) # {}}

\* C7 (amended): a committed save stores, for each target, one edge for each
\* of its processed text fields that mentions the target, and no more.
C7_OneEdgePerField ==
  (last.ok /\ last.op \in {"create", "edit"}) =>
    \A i \in DOMAIN last.added :
      LET m == last.added[i]
      IN /\ Cardinality(EdgesAt(last.added, m.tt, m.tid))
              = Cardinality(CallsNaming(m.tt, m.tid))
         /\ ments[m] >= Cardinality(CallsNaming(m.tt, m.tid))
         /\ (last.op = "edit" => ments[m] = Cardinality(CallsNaming(m.tt, m.tid)))

\* a save whose two text fields both name one entity, twice each, has stored
\* two edges to it
C7_Witness ==
  /\ last.ok /\ last.op \in {"create", "edit"}
  /\ \E i \in DOMAIN last.added :
       /\ Cardinality(CallsNaming(last.added[i].tt, last.added[i].tid)) = 2
       /\ ments[last.added[i]] = 2

\* C8: a save that fails after its process calls created stubs and before its
\* commit leaves the committed rows and edges as they were: stubs, edges and
\* the edited text become visible only together, at the commit.
C8_FailedSaveLeavesNothing ==
  [][last'.op = "failed" => (rows' = rows /\ ments' = ments)]_vars

\* a save has failed after its process calls had flushed stub rows
C8_Witness == last.op = "failed" /\ last.stubs

\* C9: a marker whose name equals, without regard to case, the name of an
\* existing entity of its kind in the campaign becomes a link to an entity of
\* that name, labelled with the stored name, and no entity is created for it.
C9_ResolvesToNamedEntity ==
  last.op = "process" =>
    \A c \in DOMAIN last.calls : \A i \in DOMAIN last.calls[c].tin :
      LET tok == last.calls[c].tin[i]
          out == last.calls[c].tout[i]
          X == Strip(tok.n)
      IN (ShortcodeMatch(tok) /\ NameTaken(last.before, tok.t, last.camp, X))
         => /\ out.k = "link"
            /\ \E r \in last.before :
                 /\ r.kind = tok.t /\ r.id = out.id /\ r.camp = last.camp
                 /\ SameName(r.name, X)
                 /\ out.n = r.name
            /\ ~\E q \in NewRows : q.kind = tok.t /\ SameName(q.name, X)

\* C10: a #pc marker naming no player character of the campaign stays in the
\* text as it was and yields no edge, while the other markers of the text are
\* resolved.
C10_PcMarkerLeft ==
  last.op = "process" =>
    \A c \in DOMAIN last.calls : \A i \in DOMAIN last.calls[c].tin :
      LET call == last.calls[c]
          tok == call.tin[i]
          X == Strip(tok.n)
      IN (ShortcodeMatch(tok) /\ tok.t = "pc"
          /\ ~NameTaken(last.before, "pc", last.camp, X))
         => /\ call.tout[i] = tok
            /\ \A j \in DOMAIN call.ments :
                 call.ments[j].tt = "pc"
                 => \E k \in DOMAIN call.tin :
                      /\ ShortcodeMatch(call.tin[k]) /\ call.tin[k].t = "pc"
                      /\ SameName(GetRow(rows, "pc", call.ments[j].tid).name,
                                  Strip(call.tin[k].n))
            /\ \A j \in DOMAIN call.tin :
                 (ShortcodeMatch(call.tin[j]) /\ call.tin[j].t # "pc")
                 => call.tout[j].k = "link"

\* the player-character rows of a table
PcRows(rs) == {r \in rs : r.kind = "pc"}

\* C11: a process call leaves the player-character rows as they were, whatever
\* its text: no player character is created, changed or removed.
C11_PcRowsUnchanged ==
  last.op = "process" => PcRows(rows) = PcRows(last.before)

\* a call has left a #pc marker in the text for want of a player character of
\* that name, while it created a stub for another marker
C11_Witness ==
  /\ last.op = "process" /\ last.stubs
  /\ \E i \in DOMAIN last.calls[1].tin :
       /\ ShortcodeMatch(last.calls[1].tin[i])
       /\ last.calls[1].tin[i].t = "pc"
       /\ last.calls[1].tout[i] = last.calls[1].tin[i]

\* C12: a process call on a text with a marker whose type code is recognized
\* but whose model cannot be loaded returns normally, leaves that marker as it
\* was and returns no edge of that type.
C12_SoftMiss ==
  last.op \in {"process", "raised"} =>
    \A i \in DOMAIN last.calls[1].tin :
      (ShortcodeMatch(last.calls[1].tin[i]) /\ last.calls[1].tin[i].t \in last.missing) =>
        /\ last.ok
        /\ last.calls[1].tout[i] = last.calls[1].tin[i]
        /\ \A k \in DOMAIN last.calls[1].ments :
             last.calls[1].ments[k].tt # last.calls[1].tin[i].t

\* the marker-like tokens of a text
MarkerLike(text) == {i \in DOMAIN text : text[i].k = "mark"}

\* C18: a process call on a text whose marker-like substrings all carry a type
\* code outside the seven recognized ones returns the text unchanged, creates
\* no entity and returns no edge.
C18_UnknownPassThrough ==
  (/\ last.op = "process"
   /\ \A i \in MarkerLike(last.calls[1].tin) : last.calls[1].tin[i].t \notin TypeKeys) =>
    /\ last.calls[1].tout = last.calls[1].tin
    /\ rows = last.before
    /\ last.calls[1].ments = <<>>

\* a call has processed a text with a marker-like substring of unknown type
C18_Witness ==
  /\ last.op = "process"
  /\ MarkerLike(last.calls[1].tin) # {}
  /\ \A i \in MarkerLike(last.calls[1].tin) : last.calls[1].tin[i].t \notin TypeKeys

\* C19: every marker a process call replaces by a link is resolved to an
\* entity whose stored name equals the trimmed marker name up to letter case,
\* also when the marker name holds % or _.
C19_ExactNameMatch ==
  last.op = "process" =>
    \A i \in DOMAIN last.calls[1].tin :
      (ShortcodeMatch(last.calls[1].tin[i]) /\ last.calls[1].tout[i].k = "link") =>
        \E r \in rows :
          /\ r.kind = last.calls[1].tin[i].t
          /\ r.id = last.calls[1].tout[i].id
          /\ SameName(r.name, Strip(last.calls[1].tin[i].n))

\* the positions of a call's text where a marker was replaced
ReplacedAt(call) ==
  {i \in DOMAIN call.tin : ShortcodeMatch(call.tin[i]) /\ call.tout[i] # call.tin[i]}

ScopedToCampaign ==
  /\ \A i \in ReplacedAt(last.calls[1]) :
       \A r \in rows :
         (r.kind = last.calls[1].tout[i].t /\ r.id = last.calls[1].tout[i].id)
           => r.camp = last.camp
  /\ \A q \in NewRows : q.camp = last.camp
  /\ \A k \in DOMAIN last.calls[1].ments : last.calls[1].ments[k].camp = last.camp

\* C17: a process call for campaign c resolves markers only to entities of c,
\* creates stubs only in c and returns edges of c only; a marker of a kind
\* other than pc that names an entity of another campaign, and none of c, gets
\* a new stub in c.
C17_CampaignScoped ==
  last.op = "process" =>
    /\ ScopedToCampaign
    /\ \A i \in DOMAIN last.calls[1].tin :
         (/\ ShortcodeMatch(last.calls[1].tin[i])
          /\ last.calls[1].tin[i].t # "pc"
          /\ \E o \in last.before :
               /\ o.kind = last.calls[1].tin[i].t
               /\ o.camp # last.camp
               /\ SameName(o.name, Strip(last.calls[1].tin[i].n))
          /\ ~NameTaken(last.before, last.calls[1].tin[i].t, last.camp,
                        Strip(last.calls[1].tin[i].n)))
         => \E q \in NewRows :
              /\ q.kind = last.calls[1].tin[i].t
              /\ q.camp = last.camp
              /\ q.id = last.calls[1].tout[i].id

\* the keys an entity of the edge store can have
EdgeKeys == {<<k, i>> : k \in {"npc", "loc"}, i \in 1..3}

\* the number of stored edges from a source to a target
EdgeCount(ms, st, sid, tt, tid) ==
  BagCardinality([m \in {x \in DOMAIN ms : x.st = st /\ x.sid = sid
                                            /\ x.tt = tt /\ x.tid = tid} |-> ms[m]])

\* C13: the forward links of a source are exactly its stored edges whose target
\* row exists, each labelled with the row's name; the back-references of a
\* target name only existing rows that are the source of a stored edge to it.
C13_DanglingOmitted ==
  \A key \in EdgeKeys :
    /\ \A e \in DOMAIN ResolveMentionsForSource(rows, ments, key[1], key[2]) :
         /\ \E r \in rows : r.kind = e.type /\ r.id = e.id /\ r.name = e.label
         /\ ResolveMentionsForSource(rows, ments, key[1], key[2])[e]
              = EdgeCount(ments, key[1], key[2], e.type, e.id)
    /\ \A m \in DOMAIN ments :
         (/\ m.st = key[1] /\ m.sid = key[2]
          /\ \E r \in rows : r.kind = m.tt /\ r.id = m.tid)
         => \E e \in DOMAIN ResolveMentionsForSource(rows, ments, key[1], key[2]) :
              e.type = m.tt /\ e.id = m.tid
    /\ \A e \in DOMAIN ResolveMentionsForTarget(rows, ments, key[1], key[2]) :
         /\ \E r \in rows : r.kind = e.type /\ r.id = e.id /\ r.name = e.label
         /\ EdgeCount(ments, e.type, e.id, key[1], key[2]) > 0

\* an entity has been deleted that is the target of an edge whose source also
\* has an edge to an existing target, and that is itself the source of an edge
C13_Witness ==
  /\ last.op = "delete"
  /\ \E m, n \in DOMAIN ments :
       /\ m.tt = last.kind /\ m.tid = last.id
       /\ n.st = m.st /\ n.sid = m.sid
       /\ \E r \in rows : r.kind = n.tt /\ r.id = n.tid
       /\ DOMAIN ResolveMentionsForSource(rows, ments, m.st, m.sid) # {}
  /\ \E m \in DOMAIN ments : m.st = last.kind /\ m.sid = last.id

\* C14: a clear call removes every stored edge of its source and leaves each
\* edge of another source kind or source id, and every entity row, as it was.
C14_ClearExactlySource ==
  last.op = "clear" =>
    /\ \A m \in DOMAIN ments : ~(m.st = last.kind /\ m.sid = last.id)
    /\ \A m \in DOMAIN ments : m \in DOMAIN last.mbefore
    /\ \A m \in DOMAIN last.mbefore :
         (m.st # last.kind \/ m.sid # last.id) =>
           (m \in DOMAIN ments /\ ments[m] = last.mbefore[m])
    /\ rows = last.before

\* a clear has removed the edges of its source while the store held an edge of
\* another source of the same kind and one of a source with the same id
C14_Witness ==
  /\ last.op = "clear"
  /\ \E m \in DOMAIN last.mbefore : m.st = last.kind /\ m.sid = last.id
  /\ \E m \in DOMAIN ments : m.st = last.kind /\ m.sid # last.id
  /\ \E m \in DOMAIN ments : m.st # last.kind /\ m.sid = last.id

\* the call made k calls before the last one (0 for the last one itself)
CallBack(k) == last.hist[Len(last.hist) - k]

\* the last three calls were clear, process of a text without marker, and the
\* caller's persisting of the returned list, all for one source
ClearedThenPlain ==
  /\ Len(last.hist) >= 3
  /\ CallBack(2).op = "clear" /\ CallBack(1).op = "process" /\ CallBack(0).op = "persist"
  /\ CallBack(2).kind = last.kind /\ CallBack(2).id = last.id
  /\ CallBack(1).kind = last.kind /\ CallBack(1).id = last.id
  /\ \A i \in DOMAIN CallBack(1).tin : ~ShortcodeMatch(CallBack(1).tin[i])

\* C15: after clear, process of a marker-free text and persisting of its
\* result, the source has no stored edge and process returned the empty list;
\* a clear that follows a clear of the same source changes nothing.
C15_ClearThenPlainLeavesNone ==
  /\ ClearedThenPlain =>
       /\ last.ret = <<>>
       /\ \A m \in DOMAIN ments : ~(m.st = last.kind /\ m.sid = last.id)
  /\ (/\ Len(last.hist) >= 2
      /\ CallBack(0).op = "clear" /\ CallBack(1).op = "clear"
      /\ CallBack(1).kind = last.kind /\ CallBack(1).id = last.id)
     => ments = last.mbefore

\* the three calls were made for a source that had stored edges, while another
\* source keeps an edge
C15_Witness ==
  /\ ClearedThenPlain
  /\ CallBack(2).had
  /\ ments # EmptyBag

\* C16: a process call leaves the stored edges exactly as they were, whatever
\* it returns, and leaves every entity row as it was; the rows it adds are
\* stubs named by markers of its text.
C16_ProcessKeepsStoredEdges ==
  last.op = "process" =>
    /\ ments = last.mbefore
    /\ last.before \subseteq rows
    /\ \A q \in rows \ last.before :
         /\ q.camp = active
         /\ q.fields = EmptyFields(q.kind)
         /\ \E i \in DOMAIN last.tin :
              /\ ShortcodeMatch(last.tin[i])
              /\ last.tin[i].t = q.kind
              /\ q.name = Strip(last.tin[i].n)

\* a call has returned edges and created a stub while the store held edges
C16_Witness ==
  /\ last.op = "process"
  /\ last.ret # <<>>
  /\ rows # last.before
  /\ ments # EmptyBag

\* C22: in a process call, two markers of one type whose names differ only in
\* surrounding whitespace are replaced by links to one entity, and a stub
\* carries its marker's name without the surrounding whitespace.
C22_NameTrimmed ==
  last.op = "process" =>
    /\ \A i, j \in DOMAIN last.calls[1].tin :
         (/\ ShortcodeMatch(last.calls[1].tin[i]) /\ ShortcodeMatch(last.calls[1].tin[j])
          /\ last.calls[1].tin[i].t = last.calls[1].tin[j].t
          /\ Strip(last.calls[1].tin[i].n) = Strip(last.calls[1].tin[j].n)
          /\ last.calls[1].tout[i].k = "link")
         => /\ last.calls[1].tout[j].k = "link"
            /\ last.calls[1].tout[j].id = last.calls[1].tout[i].id
    /\ \A q \in NewRows :
         /\ q.name = Strip(q.name)
         /\ \E i \in DOMAIN last.calls[1].tin :
              /\ ShortcodeMatch(last.calls[1].tin[i])
              /\ last.calls[1].tin[i].t = q.kind
              /\ Strip(last.calls[1].tin[i].n) = q.name

\* a call has created a stub for a marker typed with surrounding whitespace
\* and resolved a second marker, typed without it, to that stub
C22_Witness ==
  /\ last.op = "process"
  /\ \E i, j \in DOMAIN last.calls[1].tin :
       /\ last.calls[1].tin[i].k = "mark" /\ last.calls[1].tin[j].k = "mark"
       /\ last.calls[1].tin[i].n # last.calls[1].tin[j].n
       /\ Strip(last.calls[1].tin[i].n) = last.calls[1].tin[j].n
       /\ last.calls[1].tout[i].k = "link" /\ last.calls[1].tout[j].k = "link"
       /\ \E q \in NewRows : q.id = last.calls[1].tout[i].id /\ q.kind = last.calls[1].tin[i].t

\* the rows of a marker's kind and campaign whose name equals the marker's
\* trimmed name up to letter case, as they were before the call
Namesakes(tok) ==
  {r \in last.before : r.kind = tok.t /\ r.camp = last.camp /\ SameName(r.name, Strip(tok.n))}

\* C23: a marker whose name several entities of its kind in the campaign share
\* is replaced by a link to one of them, and no entity is created for it.
C23_Ambiguous ==
  last.op = "process" =>
    \A i \in DOMAIN last.calls[1].tin :
      (/\ ShortcodeMatch(last.calls[1].tin[i])
       /\ Cardinality(Namesakes(last.calls[1].tin[i])) >= 2)
      => /\ last.calls[1].tout[i].k = "link"
         /\ \E r \in Namesakes(last.calls[1].tin[i]) : r.id = last.calls[1].tout[i].id
         /\ ~\E q \in NewRows : q.kind = last.calls[1].tin[i].t

\* C26: every stub a process call creates has a non-empty name, and a marker
\* whose bracketed name is only whitespace is not resolved to a stub of the call.
C26_StubNamed ==
  last.op = "process" =>
    /\ \A q \in NewRows : q.name # <<>>
    /\ \A i \in DOMAIN last.calls[1].tin :
         (ShortcodeMatch(last.calls[1].tin[i]) /\ Strip(last.calls[1].tin[i].n) = <<>>)
         => ~\E q \in NewRows :
               /\ q.kind = last.calls[1].tin[i].t
               /\ last.calls[1].tout[i].k = "link"
               /\ q.id = last.calls[1].tout[i].id

\* the stored edges that point at a target
TargetEdges(ms, tt, tid) ==
  [m \in {x \in DOMAIN ms : x.tt = tt /\ x.tid = tid} |-> ms[m]]

\* C27: when a create handler has committed, the stored edges whose source is
\* the new entity are exactly the edges its own text fields returned, and the
\* stored edges that point at it are among those this save stored.
C27_NoInheritedMentions ==
  (last.op = "create" /\ last.ok) =>
    /\ SourceEdges(ments, last.kind, last.id) = EdgeBag(last.added)
    /\ TargetEdges(ments, last.kind, last.id)
         = TargetEdges(EdgeBag(last.added), last.kind, last.id)

\* C28: when the shortcode that quick_create returned is processed next in the
\* same campaign, it becomes a link to the entity whose id quick_create
\* returned, and the call creates no entity.
C28_QuickRoundTrip ==
  last.op = "processed" =>
    /\ last.tout # <<>>
    /\ last.tout[1].k = "link"
    /\ last.tout[1].t = last.kind
    /\ last.tout[1].id = last.id
    /\ rows = last.before

\* the rows of the requester's active campaign
OwnRows == {r \in rows : r.camp = active}

\* C30: a search or preview response names only entities of the requester's
\* active campaign, and is the response the same request gets when the tables
\* hold the rows of that campaign alone.
C30_PreviewIsolated ==
  /\ last.op = "search" =>
       /\ \A e \in last.found : \E r \in OwnRows : r.kind = e.type /\ r.id = e.id
       /\ last.found = Search(OwnRows, active, last.type, Strip(last.q))
  /\ last.op = "preview" =>
       /\ (~last.preview.error
            => \E r \in OwnRows : r.kind = last.type /\ r.id = last.id)
       /\ last.preview = EntityPreview(OwnRows, last.type, last.id)

\* C29: when delete_campaign has committed for a campaign, no stored edge
\* carries that campaign's id.
C29_CampaignEdgesGone ==
  last.op = "delete_campaign" => \A m \in DOMAIN ments : m.camp # last.id

\* C24: an edit that posts the text stored for the entity, and commits, leaves
\* the stored edges of that source as they were.
C24_ResaveKeepsEdges ==
  [][(/\ \E r \in rows, pick \in Picks : Resave(r.kind, r.id, pick)
      /\ last'.op = "edit" /\ last'.ok)
     => SourceEdges(ments', last'.kind, last'.id)
          = SourceEdges(ments, last'.kind, last'.id)]_vars

\* both requests have committed
BothCommitted == \A q \in Requests : last.reqs[q].pc = "done"

\* the targets the links of a row's text fields point to
LinkTargets(fields) ==
  UNION {{<<fields[i][j].t, fields[i][j].id>> :
            j \in {j \in DOMAIN fields[i] : fields[i][j].k = "link"}} :
         i \in DOMAIN fields}

\* the targets of the stored edges of a source
EdgeTargets(ms, st, sid) ==
  {<<m.tt, m.tid>> : m \in DOMAIN SourceEdges(ms, st, sid)}

\* C21: after two concurrent edit requests on the same entity have both
\* committed, the stored mention edges of that source are exactly the edges
\* implied by the text left stored for it: every stored edge has a link in the
\* stored text and every link in the stored text has a stored edge.
C21_EdgesOfStoredText ==
  (/\ last.op \in {"load", "write"}
   /\ BothCommitted
   /\ last.reqs[1].kind = last.reqs[2].kind
   /\ last.reqs[1].id = last.reqs[2].id)
  => EdgeTargets(ments, last.reqs[1].kind, last.reqs[1].id)
       = LinkTargets(GetRow(rows, last.reqs[1].kind, last.reqs[1].id).fields)

\* does one of the posted text fields hold a marker for the NPC named Ab
PostsMarker(form) ==
  \E i \in DOMAIN form : \E j \in DOMAIN form[i] :
    /\ ShortcodeMatch(form[i][j]) /\ form[i][j].t = "npc"
    /\ SameName(MarkerName(form[i][j]), NameAb)

\* the NPCs of the campaign that carry the name Ab
NamedAb == {r \in rows : r.kind = "npc" /\ r.camp = active /\ SameName(r.name, NameAb)}

\* C25: when two concurrent save requests of one campaign both post a marker
\* of the same type for the same name that no entity has yet, then after both
\* have committed exactly one entity of that kind with that name exists, and
\* each of the two sources has a stored edge to it.
C25_OneStub ==
  (/\ last.op \in {"load", "write"}
   /\ BothCommitted
   /\ \A q \in Requests : PostsMarker(last.reqs[q].form))
  => /\ Cardinality(NamedAb) = 1
     /\ \A q \in Requests : \A r \in NamedAb :
          <<"npc", r.id>> \in EdgeTargets(ments, last.reqs[q].kind, last.reqs[q].id)

\* two requests on different entities, loaded before either wrote, have both
\* committed a marker for the name no NPC had
C25_Witness ==
  /\ last.op = "write"
  /\ BothCommitted
  /\ last.reqs[1].kind # last.reqs[2].kind
  /\ \A q \in Requests : last.reqs[q].had = {} /\ PostsMarker(last.reqs[q].form)
  /\ Cardinality(NamedAb) = 1
  /\ \A q \in Requests :
       /\ Len(last.reqs[q].added) >= 1
       /\ EdgeTargets(ments, last.reqs[q].kind, last.reqs[q].id) # {}
====
